---- MODULE Spec2Model ----
(***************************************************************************)
(* Model of pgn_reading.py: a batch conversion of a PGN file into a table  *)
(* with one row per game (the first 40 plies in standard algebraic         *)
(* notation, then the declared result), printed and saved as data.csv.     *)
(*                                                                         *)
(* The script calls two libraries.  Their behaviour is modelled by what    *)
(* the calls do on the inputs the model enumerates:                        *)
(*   - chess: Board, push and san on games made of knight moves and        *)
(*     e-pawn double steps from the standard starting position;            *)
(*   - pandas: DataFrame(list of lists, columns=...) and to_csv.           *)
(***************************************************************************)
EXTENDS Integers, Sequences, FiniteSets, TLC

VARIABLES
    pc,         \* position of the script
    input,      \* the PGN file: [readable, games]; never changes
    pos,        \* number of game records consumed from the open file f
    game,       \* the game record returned by the last read_game
    it,         \* number of moves the iterator game.mainline_moves() has yielded
    moves,      \* the list "moves" of the current game
    board,      \* the Board of the current game
    games,      \* the list "games": one row per finished game
    dataframe,  \* the table returned by pgn_to_dataframe
    stdout,     \* what has been printed
    files       \* files written to the working directory

vars == <<pc, input, pos, game, it, moves, board, games, dataframe, stdout, files>>

(***************************************************************************)
(* Bounds of the model.                                                    *)
(***************************************************************************)
\* longest mainline (in plies) of a game of the input
MaxPlies == 42
\* largest number of game records in a file of several games
MaxGames == 2
\* number of plies of the short games in files of several games
ShortPlies == 3

\* the ply cutoff of the row-building loop
PlyCap == 40

\* a name that is not bound yet (game, board, dataframe before assignment)
Unbound == [unbound |-> TRUE]
\* Python's None, as the table shows it in a cell
None == "None"
\* a game record without a "Result" header
NoResult == "<no Result header>"

Results == {"1-0", "0-1", "1/2-1/2", "*"}

(***************************************************************************)
(* chess: squares, pieces, boards and moves.                               *)
(***************************************************************************)
Squares == 0..63
FILE_NAMES == <<"a", "b", "c", "d", "e", "f", "g", "h">>
RANK_NAMES == <<"1", "2", "3", "4", "5", "6", "7", "8">>

square_file(sq) == sq % 8
square_rank(sq) == sq \div 8
square(f, r) == f + 8 * r
SquareName(sq) == FILE_NAMES[square_file(sq) + 1] \o RANK_NAMES[square_rank(sq) + 1]

Abs(x) == IF x < 0 THEN -x ELSE x

WhitePieces == {"P", "N", "B", "R", "Q", "K"}
BlackPieces == {"p", "n", "b", "r", "q", "k"}

\* colour of a piece symbol ("." is an empty square)
ColorOf(p) == IF p \in WhitePieces THEN "w" ELSE IF p \in BlackPieces THEN "b" ELSE "."

\* piece type of a piece symbol, as its upper-case letter
PieceType(p) ==
    CASE p \in {"P", "p"} -> "P"
      [] p \in {"N", "n"} -> "N"
      [] p \in {"B", "b"} -> "B"
      [] p \in {"R", "r"} -> "R"
      [] p \in {"Q", "q"} -> "Q"
      [] p \in {"K", "k"} -> "K"
      [] OTHER -> ""

Opponent(c) == IF c = "w" THEN "b" ELSE "w"

\* chess.Board(): the standard starting position, White to move
StartBoard ==
    LET back == <<"R", "N", "B", "Q", "K", "B", "N", "R">>
        kcab == <<"r", "n", "b", "q", "k", "b", "n", "r">>
    IN  [ pieces |-> [sq \in Squares |->
                        CASE square_rank(sq) = 0 -> back[square_file(sq) + 1]
                          [] square_rank(sq) = 1 -> "P"
                          [] square_rank(sq) = 6 -> "p"
                          [] square_rank(sq) = 7 -> kcab[square_file(sq) + 1]
                          [] OTHER -> "."],
          turn |-> "w" ]

\* chess.Move(from_square, to_square), squares given as file and rank numbers from 1
Move(ff, fr, tf, tr) ==
    [from_square |-> square(ff - 1, fr - 1), to_square |-> square(tf - 1, tr - 1)]

\* Board.push for a move that is no castling, promotion or en-passant capture
Push(b, m) ==
    [ pieces |-> [b.pieces EXCEPT ![m.from_square] = ".",
                                  ![m.to_square] = b.pieces[m.from_square]],
      turn |-> Opponent(b.turn) ]

\* a knight on square a attacks square c
KnightReach(a, c) ==
    LET df == Abs(square_file(a) - square_file(c))
        dr == Abs(square_rank(a) - square_rank(c))
    IN  (df = 1 /\ dr = 2) \/ (df = 2 /\ dr = 1)

\* a pawn of colour c on square a attacks square k
PawnAttacks(c, a, k) ==
    /\ Abs(square_file(a) - square_file(k)) = 1
    /\ square_rank(k) - square_rank(a) = (IF c = "w" THEN 1 ELSE -1)

\* the squares a knight on square a attacks
KnightSquares(a) ==
    { c \in {a - 17, a - 15, a - 10, a - 6, a + 6, a + 10, a + 15, a + 17} \cap Squares :
        KnightReach(a, c) }

\* the squares from which a pawn of colour c attacks square k
PawnSquares(c, k) ==
    { a \in {k - 9, k - 7, k + 7, k + 9} \cap Squares : PawnAttacks(c, a, k) }

\* Board.is_check: the king of the side to move is attacked.  Knights and pawns
\* are the attackers looked at: in the games of the input no bishop, rook, queen
\* or king moves and no line to a king opens.
IsCheck(b) ==
    LET king == IF b.turn = "w" THEN "K" ELSE "k"
        knight == IF b.turn = "w" THEN "n" ELSE "N"
        pawn == IF b.turn = "w" THEN "p" ELSE "P"
    IN  \E k \in Squares :
            /\ b.pieces[k] = king
            /\ \/ \E a \in KnightSquares(k) : b.pieces[a] = knight
               \/ \E a \in PawnSquares(Opponent(b.turn), k) : b.pieces[a] = pawn

\* Board.is_capture: the target square holds a piece of the side not to move
IsCapture(b, m) == ColorOf(b.pieces[m.to_square]) = Opponent(b.turn)

\* the squares of the other pieces of the moving piece's kind and colour that
\* can also move to the target square (knights: the only pieces that can meet
\* in the games of the input)
Others(b, m) ==
    IF PieceType(b.pieces[m.from_square]) # "N" THEN {}
    ELSE { sq \in KnightSquares(m.to_square) \ {m.from_square} :
             b.pieces[sq] = b.pieces[m.from_square] }

\* the file and/or rank of the origin square that tells the moving piece apart
Disambiguation(b, m) ==
    LET others == Others(b, m)
        sameRank == \E o \in others : square_rank(o) = square_rank(m.from_square)
        sameFile == \E o \in others : square_file(o) = square_file(m.from_square)
        column == sameRank \/ ~sameFile
        row == sameFile
    IN  IF others = {} THEN ""
        ELSE (IF column THEN FILE_NAMES[square_file(m.from_square) + 1] ELSE "")
             \o (IF row THEN RANK_NAMES[square_rank(m.from_square) + 1] ELSE "")

\* a notation that never tells two pieces of a kind apart
SanNoDisambiguation(b, m) ==
    LET type == PieceType(b.pieces[m.from_square])
        capture == IsCapture(b, m)
    IN  (IF type = "P"
           THEN (IF capture THEN FILE_NAMES[square_file(m.from_square) + 1] ELSE "")
           ELSE type)
        \o (IF capture THEN "x" ELSE "")
        \o SquareName(m.to_square)
        \o (IF IsCheck(Push(b, m)) THEN "+" ELSE "")

\* board.san(move): standard algebraic notation of the move in the position b
San(b, m) ==
    LET type == PieceType(b.pieces[m.from_square])
        capture == IsCapture(b, m)
    IN  (IF type = "P"
           THEN (IF capture THEN FILE_NAMES[square_file(m.from_square) + 1] ELSE "")
           ELSE type \o Disambiguation(b, m))
        \o (IF capture THEN "x" ELSE "")
        \o SquareName(m.to_square)
        \o (IF IsCheck(Push(b, m)) THEN "+" ELSE "")

(***************************************************************************)
(* The games of the input.  A game record is what read_game returns for    *)
(* one game of the file: its mainline (one of three lines of play, cut to  *)
(* n plies) and its "Result" header.  Each line is an opening followed by  *)
(* a repeated knight manoeuvre, so that it can be cut at any length.       *)
(***************************************************************************)
\* 1.e4 e5 2.Nf3 Nc6 3.Nc3 Nf6, then 4.Ng1 Ng8 5.Nf3 Nf6 repeated
Opening1 ==
    << Move(5,2,5,4), Move(5,7,5,5), Move(7,1,6,3), Move(2,8,3,6),
       Move(2,1,3,3), Move(7,8,6,6) >>
Cycle1 == << Move(6,3,7,1), Move(6,6,7,8), Move(7,1,6,3), Move(7,8,6,6) >>

\* 1.Nf3 Nf6 2.Nc3 Nc6 3.Nd4 Nd5 4.Ndb5 Ncb4 5.Nxd5 Nxd5,
\* then 6.Na3 Nf6 7.Nb5 Nd5 repeated
Opening2 ==
    << Move(7,1,6,3), Move(7,8,6,6), Move(2,1,3,3), Move(2,8,3,6),
       Move(6,3,4,4), Move(6,6,4,5), Move(4,4,2,5), Move(3,6,2,4),
       Move(3,3,4,5), Move(2,4,4,5) >>
Cycle2 == << Move(2,5,1,3), Move(4,5,6,6), Move(1,3,2,5), Move(6,6,4,5) >>

\* 1.Nc3 Nf6 2.Nf3 Ng8 3.Nd4 Nf6 4.Nb3 Ng8 5.Nc5 Nf6 6.N3e4 Nxe4 7.Nxe4,
\* then 7...Nc6 8.Nc3 Nb8 9.Ne4 repeated
Opening3 ==
    << Move(2,1,3,3), Move(7,8,6,6), Move(7,1,6,3), Move(6,6,7,8),
       Move(6,3,4,4), Move(7,8,6,6), Move(4,4,2,3), Move(6,6,7,8),
       Move(2,3,3,5), Move(7,8,6,6), Move(3,3,5,4), Move(6,6,5,4),
       Move(3,5,5,4) >>
Cycle3 == << Move(2,8,3,6), Move(5,4,3,3), Move(3,6,2,8), Move(3,3,5,4) >>

Lines == {1, 2, 3}
Opening(l) == CASE l = 1 -> Opening1 [] l = 2 -> Opening2 [] OTHER -> Opening3
Cycle(l) == CASE l = 1 -> Cycle1 [] l = 2 -> Cycle2 [] OTHER -> Cycle3

\* the k-th move of line l
LineMove(l, k) ==
    IF k <= Len(Opening(l)) THEN Opening(l)[k]
    ELSE Cycle(l)[((k - Len(Opening(l)) - 1) % Len(Cycle(l))) + 1]

\* a game record: n plies of line l, "Result" header result (or none)
GameRecord(l, n, result) == [kind |-> "game", line |-> l, n |-> n, result |-> result]
\* a record read_game cannot read (the read raises)
BrokenRecord == [kind |-> "broken", line |-> 1, n |-> 0, result |-> NoResult]

\* list(game.mainline_moves())
Mainline(g) == [k \in 1..g.n |-> LineMove(g.line, k)]

\* the single games: every length up to MaxPlies, every line, every result
SingleGames ==
    { GameRecord(l, n, r) : l \in Lines, n \in 0..MaxPlies, r \in Results \cup {NoResult} }
    \cup {BrokenRecord}

\* the result declared by the games of line l in files of several games
LineResult(l) == CASE l = 1 -> "1-0" [] l = 2 -> "0-1" [] OTHER -> "*"

\* the games of files of several games: a short and an over-long game per line
SeveralGames ==
    { GameRecord(l, n, LineResult(l)) : l \in Lines, n \in {ShortPlies, PlyCap + 1} }
    \cup {GameRecord(2, ShortPlies, NoResult), BrokenRecord}

RECURSIVE SeqsUpTo(_, _)
\* the sequences over S of length at most n
SeqsUpTo(S, n) ==
    IF n = 0 THEN {<<>>}
    ELSE LET shorter == SeqsUpTo(S, n - 1)
         IN  shorter \cup { Append(s, x) : s \in { t \in shorter : Len(t) = n - 1 }, x \in S }

\* the input files: an unreadable one, those of one game, those of several
InputFiles ==
    {[readable |-> FALSE, games |-> <<>>]}
    \cup {[readable |-> TRUE, games |-> <<g>>] : g \in SingleGames}
    \cup {[readable |-> TRUE, games |-> gs] : gs \in SeqsUpTo(SeveralGames, MaxGames)}

(***************************************************************************)
(* pandas: DataFrame(rows, columns=...) and DataFrame.to_csv(index=False). *)
(***************************************************************************)
\* [f"Ply {i+1}" for i in range(40)] + ["Result"]
column_names == [i \in 1..PlyCap |-> "Ply " \o ToString(i)] \o <<"Result">>

RECURSIVE Width(_)
\* the length of the longest row
Width(rows) ==
    IF rows = <<>> THEN 0
    ELSE LET w == Width(Tail(rows))
         IN  IF Len(Head(rows)) > w THEN Len(Head(rows)) ELSE w

\* a row filled with None before its values instead of after them
PadRowLeft(row, w) == [c \in 1..w |-> IF c <= w - Len(row) THEN None ELSE row[c - (w - Len(row))]]

\* a row of the object array built from the list of lists: the row's values,
\* then None up to the width of the longest row
PadRow(row, w) == [c \in 1..w |-> IF c <= Len(row) THEN row[c] ELSE None]

\* a column count check that also refuses the empty list
DataFrameRaisesOnEmpty(rows, columns) == Width(rows) # Len(columns)

\* DataFrame(rows, columns=columns) raises ValueError ("41 columns passed, passed
\* data had k columns"): the list is not empty and its longest row has not as
\* many values as there are columns
DataFrameRaises(rows, columns) == rows # <<>> /\ Width(rows) # Len(columns)

\* DataFrame(rows, columns=columns) when it does not raise
DataFrame(rows, columns) ==
    [columns |-> columns, data |-> [i \in 1..Len(rows) |-> PadRow(rows[i], Len(columns))]]

RECURSIVE Join(_)
\* ",".join(fields)
Join(fields) ==
    IF fields = <<>> THEN ""
    ELSE IF Len(fields) = 1 THEN fields[1]
    ELSE fields[1] \o "," \o Join(Tail(fields))

\* one line of the file for a row of the table: a missing value is written empty
CsvLine(row) == Join([c \in 1..Len(row) |-> IF row[c] = None THEN "" ELSE row[c]])

\* df.to_csv(index=False): the header line, then a line per row
ToCsvLines(df) == <<Join(df.columns)>> \o [i \in 1..Len(df.data) |-> CsvLine(df.data[i])]

(***************************************************************************)
(* The script.                                                             *)
(***************************************************************************)
\* game.board(): a new board at the starting position of the game
GameBoard(g) == StartBoard

\* the two statements of the loop body in the other order
LoopBodyPushFirst(ms, b, m) ==
    [moves |-> Append(ms, San(Push(b, m), m)), board |-> Push(b, m)]

\* moves.append(board.san(move)); board.push(move)
LoopBody(ms, b, m) == [moves |-> Append(ms, San(b, m)), board |-> Push(b, m)]

\* a cutoff one ply early
CutoffOneEarly(ms) == Len(ms) = PlyCap - 1

\* a cutoff one ply late
CutoffOneLate(ms) == Len(ms) = PlyCap + 1

\* if len(moves) == 40: break
CutoffReached(ms) == Len(ms) = PlyCap

\* a result tag that reports an unfinished game as a draw
ResultTagNormalised(g) == IF g.result = "*" THEN "1/2-1/2" ELSE g.result

\* game.headers["Result"]
ResultTag(g) == g.result

\* a row put at the head of the list
AppendRowFirst(gs, row) == <<row>> \o gs

\* games.append(moves)
AppendRow(gs, row) == Append(gs, row)

\* the module body with the file written before the table is printed
NextStatementWriteFirst(p) ==
    CASE p = "frame" -> "csv"
      [] p = "csv" -> "print"
      [] p = "print" -> "done"

\* the statement that follows statement p of the module body
NextStatement(p) ==
    CASE p = "frame" -> "print"
      [] p = "print" -> "csv"
      [] p = "csv" -> "done"

Init ==
    /\ pc = "open"
    /\ input \in InputFiles
    /\ pos = 0
    /\ game = Unbound
    /\ it = 0
    /\ moves = <<>>
    /\ board = Unbound
    /\ games = <<>>
    /\ dataframe = Unbound
    /\ stdout = <<>>
    /\ files = {}

\* every step but a raise leaves the run going
Raise ==
    /\ pc' = "failed"
    /\ UNCHANGED <<input, pos, game, it, moves, board, games, dataframe, stdout, files>>

\* with open(pgn_file) as f
Open ==
    /\ pc = "open"
    /\ input.readable
    /\ pc' = "read"
    /\ UNCHANGED <<input, pos, game, it, moves, board, games, dataframe, stdout, files>>

\* open(pgn_file) raises
OpenFail ==
    /\ pc = "open"
    /\ ~input.readable
    /\ Raise

\* game = chess.pgn.read_game(f); moves = []; board = game.board(); the for
\* loop starts, and ends at once when the game has no move
ReadGame ==
    /\ pc = "read"
    /\ pos < Len(input.games)
    /\ input.games[pos + 1].kind = "game"
    /\ pos' = pos + 1
    /\ game' = input.games[pos + 1]
    /\ moves' = <<>>
    /\ board' = GameBoard(input.games[pos + 1])
    /\ it' = 0
    /\ pc' = IF input.games[pos + 1].n = 0 THEN "result" ELSE "moves"
    /\ UNCHANGED <<input, games, dataframe, stdout, files>>

\* chess.pgn.read_game(f) raises
ReadFail ==
    /\ pc = "read"
    /\ pos < Len(input.games)
    /\ input.games[pos + 1].kind = "broken"
    /\ Raise

\* read_game returns None at the end of the file: break, the file is closed
ReadEnd ==
    /\ pc = "read"
    /\ pos = Len(input.games)
    /\ pc' = "frame"
    /\ UNCHANGED <<input, pos, game, it, moves, board, games, dataframe, stdout, files>>

\* one pass of the for loop over game.mainline_moves(); the loop ends by the
\* break or when the iterator has no further move
NextMove ==
    /\ pc = "moves"
    /\ it < game.n
    /\ LET move == Mainline(game)[it + 1]
           body == LoopBody(moves, board, move)
       IN  /\ moves' = body.moves
           /\ board' = body.board
           /\ it' = it + 1
           /\ pc' = IF CutoffReached(body.moves) \/ it + 1 = game.n
                      THEN "result" ELSE "moves"
    /\ UNCHANGED <<input, pos, game, games, dataframe, stdout, files>>

\* result = game.headers["Result"]; moves.append(result); games.append(moves)
AppendResult ==
    /\ pc = "result"
    /\ game.result # NoResult
    /\ moves' = Append(moves, ResultTag(game))
    /\ games' = AppendRow(games, Append(moves, ResultTag(game)))
    /\ pc' = "read"
    /\ UNCHANGED <<input, pos, game, it, board, dataframe, stdout, files>>

\* game.headers["Result"] raises KeyError: the mapping has no such key
ResultMissing ==
    /\ pc = "result"
    /\ game.result = NoResult
    /\ Raise

\* df = pd.DataFrame(games, columns=column_names); return df
BuildFrame ==
    /\ pc = "frame"
    /\ ~DataFrameRaises(games, column_names)
    /\ dataframe' = DataFrame(games, column_names)
    /\ pc' = NextStatement("frame")
    /\ UNCHANGED <<input, pos, game, it, moves, board, games, stdout, files>>

\* pd.DataFrame(games, columns=column_names) raises ValueError
FrameFail ==
    /\ pc = "frame"
    /\ DataFrameRaises(games, column_names)
    /\ Raise

\* print(dataframe)
PrintFrame ==
    /\ pc = "print"
    /\ stdout' = Append(stdout, dataframe)
    /\ pc' = NextStatement("print")
    /\ UNCHANGED <<input, pos, game, it, moves, board, games, dataframe, files>>

\* dataframe.to_csv('data.csv', index=False)
WriteCsv ==
    /\ pc = "csv"
    /\ files' = { fl \in files : fl.name # "data.csv" }
                  \cup {[name |-> "data.csv", lines |-> ToCsvLines(dataframe)]}
    /\ pc' = NextStatement("csv")
    /\ UNCHANGED <<input, pos, game, it, moves, board, games, dataframe, stdout>>

Next ==
    \/ Open
    \/ OpenFail
    \/ ReadGame
    \/ ReadFail
    \/ ReadEnd
    \/ NextMove
    \/ AppendResult
    \/ ResultMissing
    \/ BuildFrame
    \/ FrameFail
    \/ PrintFrame
    \/ WriteCsv

Spec == Init /\ [][Next]_vars

(***************************************************************************)
(* Reference definitions the properties are stated with.                   *)
(***************************************************************************)
Min(a, b) == IF a < b THEN a ELSE b

RECURSIVE Replay(_, _)
\* the position after the first k moves of game g, from the starting position
Replay(g, k) == IF k = 0 THEN StartBoard ELSE Push(Replay(g, k - 1), LineMove(g.line, k))

RECURSIVE RenderAll(_, _)
\* the notations of the moves ms played from position b
RenderAll(b, ms) ==
    IF ms = <<>> THEN <<>>
    ELSE <<San(b, Head(ms))>> \o RenderAll(Push(b, Head(ms)), Tail(ms))

\* the mainline of g cut to the first PlyCap plies
Truncated(g) == SubSeq(Mainline(g), 1, Min(g.n, PlyCap))

\* the row of game g: the notations of its first PlyCap plies, then its result
ExpectedRow(g) == RenderAll(StartBoard, Truncated(g)) \o <<g.result>>

\* the knight moves and pawn moves the side to move may play in position b
\* (no other piece has a move whose notation starts like theirs)
LegalMoves(b) ==
    LET own(sq) == ColorOf(b.pieces[sq]) = b.turn
        dir == IF b.turn = "w" THEN 1 ELSE -1
        home == IF b.turn = "w" THEN 1 ELSE 6
        knights == { a \in Squares : b.pieces[a] = (IF b.turn = "w" THEN "N" ELSE "n") }
        pawns == { a \in Squares : b.pieces[a] = (IF b.turn = "w" THEN "P" ELSE "p") }
        knightTargets(a) == { c \in KnightSquares(a) : ~own(c) }
        pawnTargets(a) ==
            { c \in {a + 7 * dir, a + 8 * dir, a + 9 * dir, a + 16 * dir} \cap Squares :
                \/ c = a + 8 * dir /\ b.pieces[c] = "."
                \/ /\ c = a + 16 * dir
                   /\ square_rank(a) = home
                   /\ b.pieces[a + 8 * dir] = "."
                   /\ b.pieces[c] = "."
                \/ /\ PawnAttacks(b.turn, a, c)
                   /\ ColorOf(b.pieces[c]) = Opponent(b.turn) }
        candidates ==
            UNION ({ { [from_square |-> a, to_square |-> c] : c \in knightTargets(a) }
                        : a \in knights }
                   \cup { { [from_square |-> a, to_square |-> c] : c \in pawnTargets(a) }
                        : a \in pawns })
    IN  { m \in candidates : ~IsCheck([Push(b, m) EXCEPT !.turn = b.turn]) }

\* the moves of position b that the notation s names
ParseSan(b, s) == { m \in LegalMoves(b) : San(b, m) = s }

RECURSIVE ReplayNotation(_, _)
\* the moves played by reading the notations sans from position b, each one
\* parsed in the position reached; <<Unbound>> where a notation names no
\* move or more than one
ReplayNotation(b, sans) ==
    IF sans = <<>> THEN <<>>
    ELSE LET named == ParseSan(b, Head(sans))
         IN  IF Cardinality(named) # 1 THEN <<Unbound>>
             ELSE LET m == CHOOSE x \in named : TRUE
                  IN  <<m>> \o ReplayNotation(Push(b, m), Tail(sans))

\* the file data.csv, if written
DataCsv == { fl \in files : fl.name = "data.csv" }

Terminated == pc \in {"done", "failed"}

\* the games of the input are legal games: every move the loop is about to
\* process is a move of the position on the board
InputLegal ==
    (pc = "moves" /\ it < game.n) => Mainline(game)[it + 1] \in LegalMoves(board)

TypeOK ==
    /\ pc \in {"open", "read", "moves", "result", "frame", "print", "csv", "done", "failed"}
    /\ input \in InputFiles
    /\ pos \in 0..Len(input.games)
    /\ it \in 0..PlyCap
    /\ Len(games) <= pos

(***************************************************************************)
(* Properties.                                                             *)
(***************************************************************************)
\* C1: for a game of N <= 40 plies (N = 40 included) the row built for it has
\* exactly N notation entries and then the result tag: its length is N + 1 and
\* the loop adds no padding.
C1_ShortGameRow ==
    \A i \in 1..Len(games) :
        LET g == input.games[i]
            row == games[i]
        IN  g.n <= PlyCap =>
                /\ Len(row) = g.n + 1
                /\ row[g.n + 1] = g.result
                /\ \A k \in 1..g.n : row[k] \notin Results \cup {None, ""}

C1_Witness ==
    /\ pc = "read"
    /\ games # <<>>
    /\ game.n = PlyCap
    /\ Len(games[Len(games)]) = PlyCap + 1

\* C2: for a game of more than 40 plies the row holds the notations of the
\* first 40 plies, in game order, and then the result tag (length 41); when the
\* loop has ended, exactly 40 moves have been taken from the game and applied
\* to the board.  (The row is compared when it has just been added to the
\* list, and the board when the loop has just ended.)
C2_LongGameRow ==
    /\ \A i \in 1..Len(games) :
        input.games[i].n > PlyCap => Len(games[i]) = PlyCap + 1
    /\ (pc = "read" /\ games # <<>> /\ game.n > PlyCap) =>
            LET row == games[Len(games)]
            IN  /\ SubSeq(row, 1, PlyCap)
                      = RenderAll(StartBoard, SubSeq(Mainline(game), 1, PlyCap))
                /\ row[PlyCap + 1] = game.result
    /\ (pc = "result" /\ game.n > PlyCap) =>
            /\ it = PlyCap
            /\ board = Replay(game, PlyCap)

C2_Witness ==
    /\ pc = "read"
    /\ games # <<>>
    /\ game.n = PlyCap + 2
    /\ Len(games[Len(games)]) = PlyCap + 1
    /\ board = Replay(game, PlyCap)

\* C3: whatever the number of plies, the last entry of the row built for a
\* game is the game's "Result" header value as declared, one of "1-0", "0-1",
\* "1/2-1/2" and "*".
C3_ResultVerbatim ==
    \A i \in 1..Len(games) :
        /\ games[i][Len(games[i])] = input.games[i].result
        /\ games[i][Len(games[i])] \in Results

C3_Witness ==
    /\ pc = "read"
    /\ games # <<>>
    /\ game.result = "*"
    /\ game.n > PlyCap
    /\ games[Len(games)][PlyCap + 1] = "*"

\* C4: when the run completes, the table has one data row per game of the
\* input, the i-th data row holds the row of the i-th game (followed by
\* missing values only), and data.csv has one line per game after the header.
C4_OneRowPerGame ==
    pc = "done" =>
        /\ Len(dataframe.data) = Len(input.games)
        /\ \A i \in 1..Len(input.games) :
              LET want == ExpectedRow(input.games[i])
                  have == dataframe.data[i]
              IN  /\ SubSeq(have, 1, Len(want)) = want
                  /\ \A c \in (Len(want) + 1)..Len(have) : have[c] = None
        /\ \A fl \in DataCsv : Len(fl.lines) = 1 + Len(input.games)
        /\ DataCsv # {}

C4_Witness ==
    /\ pc = "done"
    /\ Len(input.games) = 2
    /\ input.games[1].n = ShortPlies
    /\ input.games[2].n > PlyCap
    /\ input.games[1].line # input.games[2].line

\* C5: for a readable input of zero games the run ends normally with a table
\* of zero rows under the 41 columns "Ply 1".."Ply 40", "Result", and data.csv
\* is written (its header line only).
C5_EmptyInput ==
    (input.readable /\ input.games = <<>> /\ Terminated) =>
        /\ pc = "done"
        /\ dataframe.data = <<>>
        /\ dataframe.columns = column_names
        /\ Len(column_names) = PlyCap + 1
        /\ column_names[1] = "Ply 1"
        /\ column_names[PlyCap] = "Ply 40"
        /\ column_names[PlyCap + 1] = "Result"
        /\ DataCsv = {[name |-> "data.csv", lines |-> <<Join(column_names)>>]}

C5_Witness ==
    /\ input.readable
    /\ input.games = <<>>
    /\ pc = "done"
    /\ dataframe.data = <<>>

\* the input of one game "1. e4 e5 2. Nf3 1-0"
C6_Input == [readable |-> TRUE, games |-> <<GameRecord(1, 3, "1-0")>>]

\* C6: for the input of the single game "e4 e5 Nf3", result "1-0", the run
\* completes and data.csv is the header line and the one line e4,e5,Nf3,1-0.
C6_EndToEnd ==
    (input = C6_Input /\ Terminated) =>
        /\ pc = "done"
        /\ DataCsv = {[name |-> "data.csv",
                       lines |-> <<Join(column_names), "e4,e5,Nf3,1-0">>]}

\* C7: a failure ends the run with nothing printed and no file written;
\* data.csv is written only after every game of the input has been read and
\* the whole table built, and the table is printed before the file is written.
C7_NoPartialOutput ==
    /\ pc = "failed" => (files = {} /\ stdout = <<>>)
    /\ files # {} =>
          /\ pos = Len(input.games)
          /\ Len(games) = Len(input.games)
          /\ dataframe # Unbound
          /\ Len(dataframe.data) = Len(input.games)
          /\ stdout = <<dataframe>>
    /\ stdout # <<>> => dataframe # Unbound

C7_Witness ==
    /\ pc = "failed"
    /\ Len(input.games) = 2
    /\ Len(games) = 1
    /\ files = {}

\* C8: in the table, a game of N < 40 plies has its result in column N + 1,
\* "Ply N+1", and every later column, "Result" included, missing; a game of
\* 40 or more plies has its result in column "Result".
C8_ShiftedLeft ==
    dataframe # Unbound =>
        \A i \in 1..Len(dataframe.data) :
            LET g == input.games[i]
                row == dataframe.data[i]
                last == Len(dataframe.columns)
            IN  /\ dataframe.columns[last] = "Result"
                /\ g.n < PlyCap =>
                      /\ row[g.n + 1] = g.result
                      /\ dataframe.columns[g.n + 1] = "Ply " \o ToString(g.n + 1)
                      /\ \A c \in (g.n + 2)..last : row[c] = None
                /\ g.n >= PlyCap => row[last] = g.result

C8_Witness ==
    /\ dataframe # Unbound
    /\ \E i, j \in 1..Len(input.games) :
          /\ input.games[i].n < PlyCap
          /\ input.games[j].n >= PlyCap
          /\ dataframe.data[i][PlyCap + 1] = None
          /\ dataframe.data[j][PlyCap + 1] = input.games[j].result

\* C9: while a game is processed, the board is the position reached by
\* applying the moves rendered so far, and no other, to the starting position,
\* and the notation rendered last was rendered in the position before its
\* move; so the k-th notation is rendered after exactly k - 1 moves of the same
\* game, and nothing of an earlier game's board remains.
C9_RenderThenPush ==
    pc \in {"moves", "result"} =>
        /\ it = Len(moves)
        /\ it <= Min(game.n, PlyCap)
        /\ it = 0 => board = StartBoard
        /\ it >= 1 =>
              LET before == Replay(game, it - 1)
                  move == LineMove(game.line, it)
              IN  /\ moves[it] = San(before, move)
                  /\ board = Push(before, move)

C9_Witness ==
    /\ pc = "moves"
    /\ pos = 2
    /\ games # <<>>
    /\ it = 11
    /\ moves[it] = "N3e4"

\* C10: reading the notations of a row (its entries before the result tag)
\* one after the other from the starting position gives back the moves of the
\* game, cut to 40 plies.
C10_RoundTrip ==
    (pc = "read" /\ games # <<>>) =>
        LET row == games[Len(games)]
        IN  ReplayNotation(StartBoard, SubSeq(row, 1, Len(row) - 1)) = Truncated(game)

C10_Witness ==
    /\ pc = "read"
    /\ games # <<>>
    /\ game.n > PlyCap
    /\ games[Len(games)][7] = "Ndb5"
    /\ games[Len(games)][8] = "Ncb4"

====
